---- MODULE Spec2Model ----
(***************************************************************************)
(* Automated Test Log Analysis System: the Cleaner (data_processing.py),   *)
(* the Classifier (error_extraction.py) and the Anomaly Detector           *)
(* (anomaly_detection.py), each as a state machine over the tables it      *)
(* reads and returns; the analysis steps of main.py over the table they    *)
(* share (with pattern_detection.py and trend_analysis.py); and the step   *)
(* loop of main.py.                                                        *)
(*                                                                         *)
(* Numbers: the four measurements are held in tenths (Voltage 2.0 is 20),  *)
(* so the comparisons of the code are integer comparisons.  Failure rates  *)
(* and the statistics taken of them are exact rationals, compared after    *)
(* cross-multiplication; pandas computes them in binary floating point.    *)
(***************************************************************************)
EXTENDS Integers, Sequences, FiniteSets, TLC

VARIABLES
    raw,        \* the caller's DataFrame handed to clean_data
    cleaned,    \* the DataFrame clean_data returns
    report,     \* the cleaning report clean_data returns
    cpc,        \* position of the cleaner run: "load", "cleaned", "recleaned"
    recleaned,  \* what clean_data returns when handed its own result
    rereport,   \* the report of that second call
    table,      \* the cleaned DataFrame handed to error_extraction.analyze
    failures,   \* what extract_failures returned
    classified, \* what classify_failures returned
    epc,        \* position of the classifier run: "input", "extracted", "classified"
    tests,      \* the cleaned DataFrame handed to the batch and device detectors
    batch_out,  \* what detect_anomalous_batches returned, or how it ended
    device_out, \* what detect_outlier_devices returned, or how it ended
    fail_days,  \* the failure subset handed to detect_error_spikes: the number
                \* of its records on each calendar day, from the first day on
    spike_out,  \* what detect_error_spikes returned
    rate_series,     \* the Series handed to zscore_anomalies
    z_out,      \* what zscore_anomalies returned, and the threshold it was given
    ctx_df,       \* ctx["df"]: the cleaned table the analysis steps of main share
    ctx_failures, \* ctx["failures"]: the classified failure subset
    ctx_results,  \* what each analysis step put into ctx, or how it ended
    ctx_steps,    \* the analysis steps run so far, in the order they ran
    main_pc,      \* where main is: "idle", "loop", "exit", "raised", "results"
    data_file,    \* data/test_logs.csv: whether it exists, its columns and content
    steps_left,   \* the entries of main's `steps` list not yet run
    running,      \* the step function being executed, or "none"
    events        \* the step calls begun, returned and raised so far, in order

cleanVars == <<raw, cleaned, report, cpc, recleaned, rereport>>

extractVars == <<table, failures, classified, epc>>

anomalyVars == <<tests, batch_out, device_out>>

vars ==
    <<raw, cleaned, report, cpc, recleaned, rereport,
      table, failures, classified, epc,
      tests, batch_out, device_out, fail_days, spike_out,
      rate_series, z_out, ctx_df, ctx_failures, ctx_results, ctx_steps,
      main_pc, data_file, steps_left, running, events>>

spikeVars == <<fail_days, spike_out>>

zVars == <<rate_series, z_out>>

stageVars == <<ctx_df, ctx_failures, ctx_results, ctx_steps>>

mainVars == <<main_pc, data_file, steps_left, running, events>>

\* The variables of the machines defined after the four above.
otherVars == <<zVars, stageVars, mainVars>>

\* The variables of the four machines above.
coreVars == <<cleanVars, extractVars, anomalyVars, spikeVars>>

\* ------------------------------------------------------------------ cells
\* A cell of a DataFrame: a string as read by read_csv(dtype=str), a float,
\* a parsed date (a day number), or the missing value (NaN / NaT).
Str(s) == [k |-> "str", s |-> s, n |-> 0]

Num(n) == [k |-> "num", s |-> "", n |-> n]

Ts(n) == [k |-> "ts", s |-> "", n |-> n]

NaN == [k |-> "nan", s |-> "", n |-> 0]

\* A cell of the Result column: a string held as its characters.
Chars(cs) == [k |-> "str", s |-> cs]

IsNa(c) == c.k = "nan"

\* ------------------------------------------------------- data_processing
numeric_cols == <<"Voltage", "Temperature", "Frequency", "Execution_Time">>

\* lo and hi of each numeric column, in tenths, in the dict's order.
VALID_RANGES ==
    <<[col |-> "Voltage", lo |-> 5, hi |-> 20],
      [col |-> "Temperature", lo |-> -400, hi |-> 1500],
      [col |-> "Frequency", lo |-> 5, hi |-> 50],
      [col |-> "Execution_Time", lo |-> 0, hi |-> 100000]>>

\* The numeric strings of the model and the float each parses to (tenths).
NumericLiterals ==
    ("2.0" :> 20) @@ ("2.5" :> 25) @@ ("-40" :> -400)
    @@ ("0.5" :> 5) @@ ("0.4" :> 4) @@ ("0" :> 0) @@ ("1.2" :> 12)

\* pd.to_numeric(errors="coerce") on one cell.
ToNumeric(c) ==
    IF c.k = "num" THEN c
    ELSE IF c.k = "str" /\ c.s \in DOMAIN NumericLiterals
         THEN Num(NumericLiterals[c.s])
         ELSE NaN

\* The date strings of the model and the day each parses to.
DateLiterals == ("2025-01-01" :> 1) @@ ("2025-01-02" :> 2)

\* pd.to_datetime(errors="coerce") on one cell.
ToDatetime(c) ==
    IF c.k = "ts" THEN c
    ELSE IF c.k = "str" /\ c.s \in DOMAIN DateLiterals
         THEN Ts(DateLiterals[c.s])
         ELSE NaN

Whitespace == {" ", "\t"}

UpperOf ==
    ("p" :> "P") @@ ("a" :> "A") @@ ("s" :> "S") @@ ("f" :> "F")
    @@ ("i" :> "I") @@ ("l" :> "L") @@ ("e" :> "E") @@ ("r" :> "R")
    @@ ("o" :> "O")

RECURSIVE LStrip(_)
LStrip(cs) ==
    IF cs # <<>> /\ Head(cs) \in Whitespace THEN LStrip(Tail(cs)) ELSE cs

RECURSIVE RStrip(_)
RStrip(cs) ==
    IF cs # <<>> /\ cs[Len(cs)] \in Whitespace
    THEN RStrip(SubSeq(cs, 1, Len(cs) - 1))
    ELSE cs

\* str.strip()
Strip(cs) == RStrip(LStrip(cs))

\* str.upper()
Upper(cs) ==
    [i \in 1..Len(cs) |-> IF cs[i] \in DOMAIN UpperOf THEN UpperOf[cs[i]] ELSE cs[i]]

\* df["Result"].str.strip().str.upper() on one cell; a missing cell stays missing.
NormalizeResult(c) == IF c.k = "str" THEN Chars(Upper(Strip(c.s))) ELSE c

PASS == <<"P", "A", "S", "S">>

FAIL == <<"F", "A", "I", "L">>

\* Step 1: every numeric column converted, in the caller's frame.
ConvertNumeric(df) ==
    [i \in 1..Len(df) |->
        [df[i] EXCEPT !.Voltage = ToNumeric(@),
                      !.Temperature = ToNumeric(@),
                      !.Frequency = ToNumeric(@),
                      !.Execution_Time = ToNumeric(@)]]

\* df[numeric_cols].isna().any(axis=1) on one row.
missing_mask(row) == \E i \in 1..Len(numeric_cols) : IsNa(row[numeric_cols[i]])

\* df.dropna(subset=numeric_cols)
DropNa(df) == LET Keep(row) == ~missing_mask(row) IN SelectSeq(df, Keep)

\* The range test with its lower half forgotten.
BadRangeHighOnly(row, rng) == row[rng.col].k = "num" /\ row[rng.col].n > rng.hi

\* (df[col] < lo) | (df[col] > hi) on one row; both comparisons are False on NaN.
BadRange(row, rng) ==
    /\ row[rng.col].k = "num"
    /\ (row[rng.col].n < rng.lo \/ row[rng.col].n > rng.hi)

\* The loop with every mask taken of the rows that entered step 3, so that a
\* row is counted once per column it violates.
RECURSIVE RangeLoopCumulative(_, _, _)
RangeLoopCumulative(df, total, j) ==
    IF j > Len(VALID_RANGES) THEN [df |-> df, total |-> total]
    ELSE LET bad(row) == BadRange(row, VALID_RANGES[j])
             any(row) == \E i \in j..Len(VALID_RANGES) : BadRange(row, VALID_RANGES[i])
             keep(row) == ~any(row)
             r == RangeLoopCumulative(df, total + Len(SelectSeq(df, bad)), j + 1)
         IN  [df |-> SelectSeq(df, keep), total |-> r.total]

\* The loop with the total overwritten by each column instead of added to.
RECURSIVE RangeLoopOverwrite(_, _, _)
RangeLoopOverwrite(df, total, j) ==
    IF j > Len(VALID_RANGES) THEN [df |-> df, total |-> total]
    ELSE LET bad(row) == BadRange(row, VALID_RANGES[j])
             keep(row) == ~bad(row)
         IN  RangeLoopOverwrite(SelectSeq(df, keep), Len(SelectSeq(df, bad)), j + 1)

\* Step 3: one column after the other, each mask taken of the rows the columns
\* before it left; returns the rows kept and the running total.
RECURSIVE RangeLoop(_, _, _)
RangeLoop(df, total, j) ==
    IF j > Len(VALID_RANGES) THEN [df |-> df, total |-> total]
    ELSE LET bad(row) == BadRange(row, VALID_RANGES[j])
             keep(row) == ~bad(row)
         IN  RangeLoop(SelectSeq(df, keep), total + Len(SelectSeq(df, bad)), j + 1)

\* Step 4: the Timestamp column parsed.
ParseTimestamp(df) ==
    [i \in 1..Len(df) |-> [df[i] EXCEPT !.Timestamp = ToDatetime(@)]]

bad_ts(row) == IsNa(row.Timestamp)

\* Step 5: the Result column normalized.
StandardizeResult(df) ==
    [i \in 1..Len(df) |-> [df[i] EXCEPT !.Result = NormalizeResult(@)]]

valid_results(row) == row.Result.k = "str" /\ row.Result.s \in {PASS, FAIL}

\* Step 6 left out.
FillErrorCodeSkipped(df) == df

\* Step 6: df["Error_Code"].fillna("")
FillErrorCode(df) ==
    [i \in 1..Len(df) |->
        [df[i] EXCEPT !.Error_Code = IF IsNa(@) THEN Str("") ELSE @]]

\* The permutations of 1..n.
Perms(n) == {p \in [1..n -> 1..n] : \A i, j \in 1..n : i # j => p[i] # p[j]}

\* Step 7 left out.
SortValuesSkipped(df) == {df}

\* Step 7: df.sort_values("Timestamp").reset_index(drop=True).  The default
\* sort is not stable: every order of the rows with equal Timestamp may come out.
SortValues(df) ==
    {[i \in 1..Len(df) |-> df[p[i]]] : p \in
        {q \in Perms(Len(df)) :
            \A i \in 1..(Len(df) - 1) :
                df[q[i]].Timestamp.n <= df[q[i + 1]].Timestamp.n}}

rows_removed_swapped(initial_count, df) == Len(df) - initial_count

rows_removed(initial_count, df) == initial_count - Len(df)

\* clean_data up to the sort: the caller's frame as step 1 leaves it, the rows
\* kept, and the four reason counts.
CleanSteps(df) ==
    LET df1 == ConvertNumeric(df)
        df2 == DropNa(df1)
        r3  == RangeLoop(df2, 0, 1)
        df4 == ParseTimestamp(r3.df)
        keep_ts(row) == ~bad_ts(row)
        df4b == SelectSeq(df4, keep_ts)
        df5 == StandardizeResult(df4b)
        invalid(row) == ~valid_results(row)
        df5b == SelectSeq(df5, valid_results)
        df6 == FillErrorCode(df5b)
    IN  [caller |-> df1,
         kept |-> df6,
         rows_with_missing_values |-> Len(SelectSeq(df1, missing_mask)),
         rows_out_of_range |-> r3.total,
         rows_bad_timestamp |-> Len(SelectSeq(df4, bad_ts)),
         rows_invalid_result |-> Len(SelectSeq(df5, invalid))]

\* ----------------------------------------------------------- cleaner input
MaxRows == 3

\* A row with every field valid.
BaseRow ==
    [Timestamp |-> Str("2025-01-02"), Voltage |-> Str("2.0"),
     Temperature |-> Str("-40"), Frequency |-> Str("0.5"),
     Execution_Time |-> Str("0"), Result |-> Chars(PASS), Error_Code |-> NaN]

\* Rows that clean_data keeps.
GoodRows ==
    {BaseRow,
     [BaseRow EXCEPT !.Timestamp = Str("2025-01-01"), !.Voltage = Str("1.2"),
                     !.Result = Chars(<<" ", "f", "a", "i", "l", " ">>),
                     !.Error_Code = Str("ERR_T01")],
     [BaseRow EXCEPT !.Timestamp = Str("2025-01-01"),
                     !.Result = Chars(<<"P", "a", "s", "s", "\t">>),
                     !.Error_Code = Str("ERR_X99")],
     [BaseRow EXCEPT !.Result = Chars(FAIL)]}

\* One defective field each.
Defects ==
    {[col |-> "Voltage", cell |-> Str("2.5")],
     [col |-> "Voltage", cell |-> Str("N/A")],
     [col |-> "Frequency", cell |-> Str("0.4")],
     [col |-> "Timestamp", cell |-> Str("not-a-date")],
     [col |-> "Result", cell |-> Chars(<<"E", "R", "R", "O", "R">>)]}

\* The base row with one or two of its fields made defective.
DefectRows ==
    {[BaseRow EXCEPT ![d.col] = d.cell] : d \in Defects}
    \cup {[[BaseRow EXCEPT ![p[1].col] = p[1].cell] EXCEPT ![p[2].col] = p[2].cell] :
            p \in {q \in Defects \X Defects : q[1].col # q[2].col}}

RawRows == GoodRows \cup DefectRows

NoReport ==
    [rows_with_missing_values |-> 0, rows_out_of_range |-> 0,
     rows_bad_timestamp |-> 0, rows_invalid_result |-> 0,
     rows_removed |-> 0, rows_remaining |-> 0]

InitClean ==
    /\ raw = <<>> /\ cleaned = <<>> /\ report = NoReport /\ cpc = "load"
    /\ recleaned = <<>> /\ rereport = NoReport

InitExtract == table = <<>> /\ failures = <<>> /\ classified = <<>> /\ epc = "input"

NotRun == [status |-> "none", stats |-> <<>>, flagged |-> <<>>]

InitAnomaly == tests = <<>> /\ batch_out = NotRun /\ device_out = NotRun

InitSpikes == fail_days = <<>> /\ spike_out = [status |-> "none", result |-> <<>>, spikes |-> <<>>]

InitZ == rate_series = <<>> /\ z_out = [status |-> "none"]

NoResults ==
    [extract |-> [status |-> "none"], patterns |-> [status |-> "none"],
     anomalies |-> [status |-> "none"], trends |-> [status |-> "none"]]

InitStages ==
    ctx_df = <<>> /\ ctx_failures = <<>> /\ ctx_results = NoResults /\ ctx_steps = <<>>

InitMain ==
    /\ main_pc = "idle" /\ steps_left = <<>>
    /\ data_file = [exists |-> FALSE, columns |-> {}, any_failure |-> FALSE,
                    equal_rates |-> FALSE]
    /\ running = "none" /\ events = <<>>

Init ==
    /\ InitClean /\ InitExtract /\ InitAnomaly /\ InitSpikes /\ InitZ /\ InitStages
    /\ InitMain

\* load_raw_data: one more record read from the CSV.
LoadRow ==
    /\ cpc = "load"
    /\ Len(raw) < MaxRows
    /\ \E row \in RawRows : raw' = Append(raw, row)
    /\ UNCHANGED <<cleaned, report, cpc, recleaned, rereport>>
    /\ UNCHANGED extractVars
    /\ UNCHANGED anomalyVars
    /\ UNCHANGED spikeVars
    /\ UNCHANGED otherVars

\* clean_data(df)
CleanData ==
    /\ cpc = "load"
    /\ LET c == CleanSteps(raw)
       IN  /\ raw' = c.caller
           /\ \E out \in SortValues(c.kept) :
                /\ cleaned' = out
                /\ report' =
                     [rows_with_missing_values |-> c.rows_with_missing_values,
                      rows_out_of_range |-> c.rows_out_of_range,
                      rows_bad_timestamp |-> c.rows_bad_timestamp,
                      rows_invalid_result |-> c.rows_invalid_result,
                      rows_removed |-> rows_removed(Len(raw), out),
                      rows_remaining |-> Len(out)]
    /\ cpc' = "cleaned"
    /\ UNCHANGED <<recleaned, rereport>>
    /\ UNCHANGED extractVars
    /\ UNCHANGED anomalyVars
    /\ UNCHANGED spikeVars
    /\ UNCHANGED otherVars

\* clean_data(cleaned): the table a first call returned is the caller's frame
\* of a second call.
CleanAgain ==
    /\ cpc = "cleaned"
    /\ LET c == CleanSteps(cleaned)
       IN  /\ cleaned' = c.caller
           /\ \E out \in SortValues(c.kept) :
                /\ recleaned' = out
                /\ rereport' =
                     [rows_with_missing_values |-> c.rows_with_missing_values,
                      rows_out_of_range |-> c.rows_out_of_range,
                      rows_bad_timestamp |-> c.rows_bad_timestamp,
                      rows_invalid_result |-> c.rows_invalid_result,
                      rows_removed |-> rows_removed(Len(cleaned), out),
                      rows_remaining |-> Len(out)]
    /\ cpc' = "recleaned"
    /\ UNCHANGED <<raw, report>>
    /\ UNCHANGED extractVars
    /\ UNCHANGED anomalyVars
    /\ UNCHANGED spikeVars
    /\ UNCHANGED otherVars

NextClean == LoadRow \/ CleanData \/ CleanAgain

SpecClean == Init /\ [][NextClean]_vars

\* ------------------------------------------------------ error_extraction
FAILURE_CATEGORIES ==
    ("ERR_T01" :> "Timing Failure") @@ ("ERR_T02" :> "Timing Failure")
    @@ ("ERR_T03" :> "Timing Failure")
    @@ ("ERR_V01" :> "Overcurrent") @@ ("ERR_V02" :> "Overcurrent")
    @@ ("ERR_B01" :> "Thermal Issue") @@ ("ERR_B02" :> "Thermal Issue")
    @@ ("ERR_B03" :> "Data Corruption")
    @@ ("ERR_S01" :> "Thermal Issue") @@ ("ERR_S02" :> "Data Corruption")
    @@ ("ERR_D01" :> "Data Corruption") @@ ("ERR_D02" :> "Data Corruption")
    @@ ("ERR_F01" :> "Timing Failure") @@ ("ERR_F02" :> "Overcurrent")
    @@ ("ERR_L01" :> "Overcurrent") @@ ("ERR_L02" :> "Thermal Issue")
    @@ ("ERR_P01" :> "Data Corruption") @@ ("ERR_P02" :> "Overcurrent")

\* The mask left out: every record returned.
extract_failures_unmasked(df) == df

\* df[df["Result"] == "FAIL"].copy()
extract_failures(df) ==
    LET is_fail(row) == row.Result.k = "str" /\ row.Result.s = FAIL
    IN  SelectSeq(df, is_fail)

\* Series.map(FAILURE_CATEGORIES) on one cell: NaN where the dict has no key.
MapCategory(c) ==
    IF c.k = "str" /\ c.s \in DOMAIN FAILURE_CATEGORIES
    THEN Str(FAILURE_CATEGORIES[c.s])
    ELSE NaN

\* The fallback left out.
FillUnknownSkipped(c) == c

\* fillna("Unknown") on one cell.
FillUnknown(c) == IF IsNa(c) THEN Str("Unknown") ELSE c

\* work[name] = value on one row: the row with the column set, added if new.
SetColumn(row, name, value) ==
    [c \in DOMAIN row \cup {name} |-> IF c = name THEN value ELSE row[c]]

\* classify_failures(failures): a copy with the Failure_Category column added.
classify_failures(fs) ==
    [i \in 1..Len(fs) |->
        SetColumn(fs[i], "Failure_Category", FillUnknown(MapCategory(fs[i].Error_Code)))]

\* ------------------------------------------------------- classifier input
MaxRecords == 3

\* The Error_Code values of the model: five keys of the mapping, a code that
\* is no key, and the empty string step 6 of the cleaner leaves.
ErrorCodes == {"ERR_T01", "ERR_V01", "ERR_B03", "ERR_S01", "ERR_X99", ""}

CleanRecords ==
    {[Result |-> Chars(res), Error_Code |-> Str(code)] :
        res \in {PASS, FAIL}, code \in ErrorCodes}

\* One more record of the cleaned table.
AddRecord ==
    /\ epc = "input"
    /\ Len(table) < MaxRecords
    /\ \E rec \in CleanRecords : table' = Append(table, rec)
    /\ UNCHANGED <<failures, classified, epc>>
    /\ UNCHANGED cleanVars
    /\ UNCHANGED anomalyVars
    /\ UNCHANGED spikeVars
    /\ UNCHANGED otherVars

\* analyze: failures = extract_failures(df)
ExtractFailures ==
    /\ epc = "input"
    /\ failures' = extract_failures(table)
    /\ epc' = "extracted"
    /\ UNCHANGED <<table, classified>>
    /\ UNCHANGED cleanVars
    /\ UNCHANGED anomalyVars
    /\ UNCHANGED spikeVars
    /\ UNCHANGED otherVars

\* analyze: failures = classify_failures(failures)
ClassifyFailures ==
    /\ epc = "extracted"
    /\ classified' = classify_failures(failures)
    /\ epc' = "classified"
    /\ UNCHANGED <<table, failures>>
    /\ UNCHANGED cleanVars
    /\ UNCHANGED anomalyVars
    /\ UNCHANGED spikeVars
    /\ UNCHANGED otherVars

NextExtract == AddRecord \/ ExtractFailures \/ ClassifyFailures

SpecExtract == Init /\ [][NextExtract]_vars

\* ----------------------------------------------------- anomaly_detection
RECURSIVE SumSeq(_)
SumSeq(xs) == IF xs = <<>> THEN 0 ELSE Head(xs) + SumSeq(Tail(xs))

RECURSIVE ProdSeq(_)
ProdSeq(xs) == IF xs = <<>> THEN 1 ELSE Head(xs) * ProdSeq(Tail(xs))

RECURSIVE Gcd(_, _)
Gcd(a, b) == IF b = 0 THEN a ELSE Gcd(b, a % b)

\* A z-score, held exactly as its sign and its square num/den in lowest terms;
\* nan when the standard deviation is NaN (fewer than two values).
ZScore(dev, n, q) ==
    IF n < 2 THEN [nan |-> TRUE, sign |-> 0, num |-> 0, den |-> 1]
    ELSE LET a == dev * dev * (n - 1)
             g == Gcd(a, q)
         IN  [nan |-> FALSE,
              sign |-> IF dev > 0 THEN 1 ELSE IF dev < 0 THEN -1 ELSE 0,
              num |-> a \div g, den |-> q \div g]

\* The deviation taken with the divisor n (ddof=0) instead of n - 1.
zscore_anomalies_population(series, threshold) ==
    LET n == Len(series)
        D == ProdSeq([i \in 1..n |-> series[i].den])
        R == [i \in 1..n |-> series[i].num * (D \div series[i].den)]
        S == SumSeq(R)
        dev == [i \in 1..n |-> n * R[i] - S]
        q == SumSeq([i \in 1..n |-> dev[i] * dev[i]])
    IN  IF n >= 1 /\ q = 0
        THEN [kind |-> "series", mask |-> [i \in 1..n |-> FALSE], zscores |-> <<>>]
        ELSE [kind |-> "tuple",
              mask |-> [i \in 1..n |->
                  100 * dev[i] * dev[i] * n > threshold * threshold * q],
              zscores |-> [i \in 1..n |-> ZScore(dev[i], n, q)]]

\* zscore_anomalies(series, threshold).  series: the failure rates, each a
\* fraction [num, den]; threshold in tenths.  With R[i] the rates over the common
\* denominator and dev[i] = n*R[i] - sum(R): mean = sum(R)/n, series.std() (the
\* sample standard deviation) is sqrt(sum(dev^2) / (n^2 (n-1))) for n >= 2 and NaN
\* otherwise, and z[i]^2 = dev[i]^2 (n-1) / sum(dev^2).
\* The zero-deviation branch returns the mask alone, the other a pair.
zscore_anomalies(series, threshold) ==
    LET n == Len(series)
        D == ProdSeq([i \in 1..n |-> series[i].den])
        R == [i \in 1..n |-> series[i].num * (D \div series[i].den)]
        S == SumSeq(R)
        dev == [i \in 1..n |-> n * R[i] - S]
        q == SumSeq([i \in 1..n |-> dev[i] * dev[i]])
    IN  IF n >= 2 /\ q = 0
        THEN [kind |-> "series", mask |-> [i \in 1..n |-> FALSE], zscores |-> <<>>]
        ELSE [kind |-> "tuple",
              mask |-> [i \in 1..n |->
                  n >= 2 /\ 100 * dev[i] * dev[i] * (n - 1) > threshold * threshold * q],
              zscores |-> [i \in 1..n |-> ZScore(dev[i], n, q)]]

\* `is_anomaly, zscores = zscore_anomalies(...)` followed by zscores.round(3):
\* a pair unpacks; a lone Series unpacks only if it has exactly two elements, and
\* then zscores is a bool, which has no round.
Unpack(ret) ==
    IF ret.kind = "tuple" THEN "ok"
    ELSE IF Len(ret.mask) = 2 THEN "AttributeError" ELSE "ValueError"

BatchIds == <<"Batch_01", "Batch_02", "Batch_03">>

DeviceIds == <<"DEV_001_0000", "DEV_001_0001", "DEV_002_0000", "DEV_003_0000">>

\* df.groupby(col)["Result"].agg(Total="count", Failures=...): one row per key
\* present, in ascending key order (keys: the ids in ascending order).
GroupStats(df, col, keys) ==
    LET present(key) == \E i \in 1..Len(df) : df[i][col] = key
        ks == SelectSeq(keys, present)
    IN  [j \in 1..Len(ks) |->
            [Id |-> ks[j],
             Total |-> Cardinality({i \in 1..Len(df) : df[i][col] = ks[j]}),
             Failures |-> Cardinality({i \in 1..Len(df) :
                 df[i][col] = ks[j] /\ df[i].Result.s = FAIL})]]

\* The Failure_Rate column: Failures / Total.
FailureRates(stats) ==
    [j \in 1..Len(stats) |-> [num |-> stats[j].Failures, den |-> stats[j].Total]]

\* The stats with the Z_Score and flag columns set, and the flagged rows.
Scored(stats, ret) ==
    LET full == [j \in 1..Len(stats) |->
                    [Id |-> stats[j].Id, Total |-> stats[j].Total,
                     Failures |-> stats[j].Failures,
                     Z_Score |-> ret.zscores[j], Flag |-> ret.mask[j]]]
        flag(row) == row.Flag
    IN  [status |-> "ok", stats |-> full, flagged |-> SelectSeq(full, flag)]

Raised(err) == [status |-> err, stats |-> <<>>, flagged |-> <<>>]

BatchZThreshold == 25

DeviceZThreshold == 30

\* detect_anomalous_batches(df, z_threshold)
detect_anomalous_batches(df, z_threshold) ==
    LET batch_stats == GroupStats(df, "Batch_ID", BatchIds)
        ret == zscore_anomalies(FailureRates(batch_stats), z_threshold)
    IN  IF Unpack(ret) = "ok" THEN Scored(batch_stats, ret) ELSE Raised(Unpack(ret))

\* The sample guard one test too low.
EnoughTestsTwo(row) == row.Total >= 2

\* device_stats["Total"] >= 3
EnoughTests(row) == row.Total >= 3

\* sort_values("Failure_Rate", ascending=False): every order of the rows in
\* which the rate does not increase.
SortByRateDesc(rows) ==
    {[i \in 1..Len(rows) |-> rows[p[i]]] : p \in
        {q \in Perms(Len(rows)) :
            \A i \in 1..(Len(rows) - 1) :
                rows[q[i]].Failures * rows[q[i + 1]].Total
                    >= rows[q[i + 1]].Failures * rows[q[i]].Total}}

\* detect_outlier_devices(df, z_threshold): the results it may return.
detect_outlier_devices(df, z_threshold) ==
    LET device_stats == SelectSeq(GroupStats(df, "Device_ID", DeviceIds), EnoughTests)
        ret == zscore_anomalies(FailureRates(device_stats), z_threshold)
        out == Scored(device_stats, ret)
    IN  IF Unpack(ret) = "ok"
        THEN {[out EXCEPT !.flagged = o] : o \in SortByRateDesc(out.flagged)}
        ELSE {Raised(Unpack(ret))}

\* --------------------------------------------------------- detector input
MaxTests == 9

\* The test records of the model, by device and result; a device belongs to
\* one batch (generate_logs names it DEV_<batch>_<index>).
TestRecords ==
    <<[Device_ID |-> DeviceIds[1], Batch_ID |-> BatchIds[1], Result |-> Chars(PASS)],
      [Device_ID |-> DeviceIds[1], Batch_ID |-> BatchIds[1], Result |-> Chars(FAIL)],
      [Device_ID |-> DeviceIds[2], Batch_ID |-> BatchIds[1], Result |-> Chars(PASS)],
      [Device_ID |-> DeviceIds[2], Batch_ID |-> BatchIds[1], Result |-> Chars(FAIL)],
      [Device_ID |-> DeviceIds[3], Batch_ID |-> BatchIds[2], Result |-> Chars(PASS)],
      [Device_ID |-> DeviceIds[3], Batch_ID |-> BatchIds[2], Result |-> Chars(FAIL)],
      [Device_ID |-> DeviceIds[4], Batch_ID |-> BatchIds[3], Result |-> Chars(PASS)],
      [Device_ID |-> DeviceIds[4], Batch_ID |-> BatchIds[3], Result |-> Chars(FAIL)]>>

\* One more record of the cleaned table.  The grouped counts do not read the
\* order of the rows, so the tables of the model list the records in the order
\* of TestRecords.
AddTest ==
    /\ batch_out.status = "none"
    /\ device_out.status = "none"
    /\ Len(tests) < MaxTests
    /\ \E k \in 1..Len(TestRecords) :
        /\ IF tests = <<>> THEN TRUE
           ELSE \E j \in 1..k : tests[Len(tests)] = TestRecords[j]
        /\ tests' = Append(tests, TestRecords[k])
    /\ UNCHANGED <<batch_out, device_out>>
    /\ UNCHANGED cleanVars
    /\ UNCHANGED extractVars
    /\ UNCHANGED spikeVars
    /\ UNCHANGED otherVars

\* detect_anomalous_batches(df)
DetectAnomalousBatches ==
    /\ batch_out.status = "none"
    /\ batch_out' = detect_anomalous_batches(tests, BatchZThreshold)
    /\ UNCHANGED <<tests, device_out>>
    /\ UNCHANGED cleanVars
    /\ UNCHANGED extractVars
    /\ UNCHANGED spikeVars
    /\ UNCHANGED otherVars

\* detect_outlier_devices(df)
DetectOutlierDevices ==
    /\ device_out.status = "none"
    /\ device_out' \in detect_outlier_devices(tests, DeviceZThreshold)
    /\ UNCHANGED <<tests, batch_out>>
    /\ UNCHANGED cleanVars
    /\ UNCHANGED extractVars
    /\ UNCHANGED spikeVars
    /\ UNCHANGED otherVars

NextAnomaly == AddTest \/ DetectAnomalousBatches \/ DetectOutlierDevices

SpecAnomaly == Init /\ [][NextAnomaly]_vars

\* ------------------------------------------- anomaly_detection: spikes
window_days == 7

\* failures.set_index("Timestamp").resample("D")["Error_Code"].count(): one
\* entry per calendar day from the day of the first failure to the day of the
\* last one, zero on the days between that have none.
RECURSIVE DropLeadingZeros(_)
DropLeadingZeros(xs) ==
    IF xs # <<>> /\ Head(xs) = 0 THEN DropLeadingZeros(Tail(xs)) ELSE xs

RECURSIVE DropTrailingZeros(_)
DropTrailingZeros(xs) ==
    IF xs # <<>> /\ xs[Len(xs)] = 0
    THEN DropTrailingZeros(SubSeq(xs, 1, Len(xs) - 1))
    ELSE xs

Resample(days) == DropTrailingZeros(DropLeadingZeros(days))

\* The window a rolling(...).shift(1) would give: the window_days days before
\* day i, without the day itself.
RollingShifted(daily, i) ==
    SubSeq(daily, IF i > window_days THEN i - window_days ELSE 1, i - 1)

\* daily.rolling(window=window_days, min_periods=1): the window of day i, the
\* day itself and up to window_days - 1 days before it.
Rolling(daily, i) ==
    SubSeq(daily, IF i > window_days THEN i - window_days + 1 ELSE 1, i)

\* daily > moving_avg + 2.5 * moving_std on one day, x the day's count and w its
\* window.  With n = len(w), a = n*x - sum(w) and q = sum((n*w[j] - sum(w))^2):
\* mean = sum(w)/n and std (sample, NaN filled with 0 when n = 1) is
\* sqrt(q / (n^2 (n-1))), so the test is a > 0 and 4 a^2 (n-1) > 25 q.
ExceedsUpperBound(x, w) ==
    LET n == Len(w)
        S == SumSeq(w)
        a == n * x - S
        q == SumSeq([j \in 1..n |-> (n * w[j] - S) * (n * w[j] - S)])
    IN  IF n < 2 THEN a > 0
        ELSE a > 0 /\ 4 * a * a * (n - 1) > 25 * q

\* detect_error_spikes(failures): the daily table (Moving_Avg held as the
\* fraction sum/len of the window) and the spike days.
detect_error_spikes(days) ==
    LET daily == Resample(days)
        result == [i \in 1..Len(daily) |->
            [Day |-> i,
             Daily_Failures |-> daily[i],
             Moving_Avg |-> [num |-> SumSeq(Rolling(daily, i)),
                             den |-> Len(Rolling(daily, i))],
             Is_Spike |-> ExceedsUpperBound(daily[i], Rolling(daily, i))]]
        spike(row) == row.Is_Spike
    IN  [status |-> "ok", result |-> result, spikes |-> SelectSeq(result, spike)]

\* ------------------------------------------------------------ spike input
\* One day more than the window, so that a day with a full window before it
\* is reached.
MaxDays == window_days + 1

\* The numbers of failures a day may have.
DayCounts == {0, 3, 5, 7, 10, 50}

\* The most records the failure subset holds.
MaxFailures == 85

\* The failures of one more calendar day.
AddDay ==
    /\ spike_out.status = "none"
    /\ Len(fail_days) < MaxDays
    /\ \E c \in DayCounts :
        /\ SumSeq(fail_days) + c <= MaxFailures
        /\ fail_days' = Append(fail_days, c)
    /\ UNCHANGED spike_out
    /\ UNCHANGED cleanVars
    /\ UNCHANGED extractVars
    /\ UNCHANGED anomalyVars
    /\ UNCHANGED otherVars

\* detect_error_spikes(failures)
DetectErrorSpikes ==
    /\ spike_out.status = "none"
    /\ spike_out' = detect_error_spikes(fail_days)
    /\ UNCHANGED fail_days
    /\ UNCHANGED cleanVars
    /\ UNCHANGED extractVars
    /\ UNCHANGED anomalyVars
    /\ UNCHANGED otherVars

NextSpikes == AddDay \/ DetectErrorSpikes

SpecSpikes == Init /\ [][NextSpikes]_vars

\* The numbers of failures of a day from none to a burst, with nothing said of
\* the week before.
BurstCounts == {0, 1, 5, 50}

\* The failures of one more calendar day, after the day of the first failure.
AddBurstDay ==
    /\ spike_out.status = "none"
    /\ Len(fail_days) < MaxDays
    /\ \E c \in BurstCounts :
        /\ fail_days = <<>> => c > 0
        /\ fail_days' = Append(fail_days, c)
    /\ UNCHANGED spike_out
    /\ UNCHANGED cleanVars
    /\ UNCHANGED extractVars
    /\ UNCHANGED anomalyVars
    /\ UNCHANGED otherVars

NextBursts == AddBurstDay \/ DetectErrorSpikes

SpecBursts == Init /\ [][NextBursts]_vars

\* ------------------------------------ anomaly_detection: the z-score alone
MaxSeries == 9

\* The failure rates of the model: no test failed, half of them, all of them.
Rates == {[num |-> 0, den |-> 1], [num |-> 1, den |-> 2], [num |-> 1, den |-> 1]}

\* One more group (batch or device) with its failure rate.
AddRate ==
    /\ z_out.status = "none"
    /\ Len(rate_series) < MaxSeries
    /\ \E r \in Rates : rate_series' = Append(rate_series, r)
    /\ UNCHANGED z_out
    /\ UNCHANGED coreVars
    /\ UNCHANGED stageVars
    /\ UNCHANGED mainVars

\* zscore_anomalies(series, threshold) as detect_anomalous_batches and
\* detect_outlier_devices call it, each with its default threshold.
ZscoreAnomalies ==
    /\ z_out.status = "none"
    /\ \E threshold \in {BatchZThreshold, DeviceZThreshold} :
        z_out' = [status |-> "returned", threshold |-> threshold,
                  ret |-> zscore_anomalies(rate_series, threshold)]
    /\ UNCHANGED rate_series
    /\ UNCHANGED coreVars
    /\ UNCHANGED stageVars
    /\ UNCHANGED mainVars

NextZ == AddRate \/ ZscoreAnomalies

SpecZ == Init /\ [][NextZ]_vars

\* ------------------------------------------------------ pattern_detection
\* round(a / b, 2 places already scaled in): a / b to the nearest integer, a
\* tie to the even one (a >= 0, b > 0).
RoundDiv(a, b) ==
    LET q == a \div b
        r == a % b
    IN  IF 2 * r < b THEN q
        ELSE IF 2 * r > b THEN q + 1
        ELSE IF q % 2 = 0 THEN q ELSE q + 1

\* (Failures / Total * 100).round(2), in hundredths of a percent.
FailureRatePct(failed, total) == RoundDiv(10000 * failed, total)

\* pd.cut(x, bins) on one value, with the defaults right=True and
\* include_lowest=False: the interval (bins[j], bins[j+1]] that holds x, as its
\* index j, or 0 (NaN) when x lies in none.
Cut(x, bins) ==
    LET inside(j) == bins[j] < x /\ x <= bins[j + 1]
    IN  IF \E j \in 1..(Len(bins) - 1) : inside(j)
        THEN CHOOSE j \in 1..(Len(bins) - 1) : inside(j)
        ELSE 0

\* list(range(20, 130, 10)), in tenths.
temperature_bins == [i \in 1..11 |-> 100 * (i + 1)]

\* [round(0.7 + i * 0.1, 1) for i in range(9)], in tenths.
voltage_bins == [i \in 1..9 |-> 6 + i]

\* list(range(0, 400, 50)), in tenths.
duration_bins == [i \in 1..8 |-> 500 * (i - 1)]

\* TEST_TYPES in ascending order, as groupby lists its keys.
TestNames ==
    <<"Burn_In", "Data_Integrity", "Frequency_Scan", "Leakage_Test",
      "Power_Cycle", "Stress_Test", "Timing_Check", "Voltage_Sweep">>

\* The rows of one group each, with count, failures and failure rate; groups
\* without a record are left out.
GroupRates(df, keys, key_of) ==
    LET present(key) == \E i \in 1..Len(df) : key_of[i] = key
        ks == SelectSeq(keys, present)
    IN  [j \in 1..Len(ks) |->
            LET members == {i \in 1..Len(df) : key_of[i] = ks[j]}
                failed == {i \in members : df[i].Result.s = FAIL}
            IN  [Group |-> ks[j],
                 Total |-> Cardinality(members),
                 Failures |-> Cardinality(failed),
                 Failure_Rate_Pct |->
                     FailureRatePct(Cardinality(failed), Cardinality(members))]]

\* failure_rate_by_column(df, column, bins), bins = <<>> standing for None.
\* It works on work = df.copy(): `df` is the caller's frame when it returns,
\* `ret` the grouped table.  A bin is named by the index of its lower edge; a
\* record that pd.cut puts in no bin is in no group.
failure_rate_by_column(df, column, bins) ==
    LET work == df
        binned == [i \in 1..Len(work) |->
                      SetColumn(work[i], column \o "_bin", Cut(work[i][column].n, bins))]
    IN  IF bins # <<>>
        THEN [df |-> df,
              ret |-> GroupRates(binned, [j \in 1..(Len(bins) - 1) |-> j],
                                 [i \in 1..Len(binned) |-> binned[i][column \o "_bin"]])]
        ELSE [df |-> df,
              ret |-> GroupRates(work,
                                 IF column = "Batch_ID" THEN BatchIds ELSE TestNames,
                                 [i \in 1..Len(work) |-> work[i][column]])]

failure_vs_temperature(df) == failure_rate_by_column(df, "Temperature", temperature_bins)

failure_vs_voltage(df) == failure_rate_by_column(df, "Voltage", voltage_bins)

failure_vs_batch(df) == failure_rate_by_column(df, "Batch_ID", <<>>)

failure_vs_test(df) == failure_rate_by_column(df, "Test_Name", <<>>)

failure_vs_duration(df) == failure_rate_by_column(df, "Execution_Time", duration_bins)

\* compute_correlations(df): a feature with fewer than 10 records is skipped,
\* so a table of fewer than 10 records gives the empty frame; the coefficient
\* of a longer table is left as the name of the call.
compute_correlations(df) ==
    [df |-> df, ret |-> IF Len(df) < 10 THEN <<>> ELSE <<"pointbiserialr">>]

\* pattern_detection.analyze(df): the six calls in turn, each handed the frame
\* as the call before left it.
pattern_analyze(df) ==
    LET t == failure_vs_temperature(df)
        v == failure_vs_voltage(t.df)
        b == failure_vs_batch(v.df)
        n == failure_vs_test(b.df)
        d == failure_vs_duration(n.df)
        c == compute_correlations(d.df)
    IN  [df |-> c.df,
         ret |-> [failure_vs_temperature |-> t.ret, failure_vs_voltage |-> v.ret,
                  failure_vs_batch |-> b.ret, failure_vs_test |-> n.ret,
                  failure_vs_duration |-> d.ret, correlations |-> c.ret]]

\* --------------------------------------------------------- trend_analysis
\* Timestamps are day numbers, day 1 being 2025-01-01, a Wednesday; the model
\* covers 2024-12-23 (day -8) to 2026-01-04 (day 369).
\* dt.isocalendar().year: ISO year 2025 runs from Monday 2024-12-30 (day -1) to
\* Sunday 2025-12-28 (day 362).
IsoYear(day) == IF day < -1 THEN 2024 ELSE IF day <= 362 THEN 2025 ELSE 2026

\* dt.isocalendar().week: 2024-12-23..29 is week 52 of 2024.
IsoWeek(day) ==
    IF day < -1 THEN 52
    ELSE IF day <= 362 THEN ((day + 1) \div 7) + 1
    ELSE 1

\* The members of a set of integers in ascending order.
RECURSIVE Ascending(_)
Ascending(S) ==
    IF S = {} THEN <<>>
    ELSE LET least == CHOOSE x \in S : \A y \in S : x <= y
         IN  <<least>> \o Ascending(S \ {least})

\* Series.unique(): the values in the order of their first appearance.
RECURSIVE Unique(_)
Unique(xs) ==
    IF xs = <<>> THEN <<>>
    ELSE LET rest == Unique(SubSeq(xs, 1, Len(xs) - 1))
             last == xs[Len(xs)]
         IN  IF \E i \in 1..Len(rest) : rest[i] = last THEN rest ELSE Append(rest, last)

\* The Date column set in the caller's frame instead of a copy.
daily_failure_rate_in_place(df) ==
    LET df_work == [i \in 1..Len(df) |-> SetColumn(df[i], "Date", df[i].Timestamp.n)]
    IN  [df |-> df_work,
         ret |-> GroupRates(df_work,
                            Ascending({df_work[i].Date : i \in 1..Len(df_work)}),
                            [i \in 1..Len(df_work) |-> df_work[i].Date])]

\* daily_failure_rate(df): one row per date that has a record, ascending.
daily_failure_rate(df) ==
    LET df_work == [i \in 1..Len(df) |-> SetColumn(df[i], "Date", df[i].Timestamp.n)]
    IN  [df |-> df,
         ret |-> GroupRates(df_work,
                            Ascending({df_work[i].Date : i \in 1..Len(df_work)}),
                            [i \in 1..Len(df_work) |-> df_work[i].Date])]

\* rolling_failure_rate(daily_df, window): the mean of the row's rate and of up
\* to window - 1 rows before it, rounded to 2 places.
rolling_failure_rate(daily_df, window) ==
    [i \in 1..Len(daily_df) |->
        LET first == IF i > window THEN i - window + 1 ELSE 1
            w == [j \in 1..(i - first + 1) |-> daily_df[first + j - 1].Failure_Rate_Pct]
        IN  RoundDiv(SumSeq(w), Len(w))]

\* weekly_failure_rate(df): one row per (Year, Week) that has a record; a key
\* is held as 100 * Year + Week, which orders as the pair does.
weekly_failure_rate(df) ==
    LET df_work == [i \in 1..Len(df) |->
            SetColumn(SetColumn(df[i], "Week", IsoWeek(df[i].Timestamp.n)),
                      "Year", IsoYear(df[i].Timestamp.n))]
        key_of == [i \in 1..Len(df_work) |-> 100 * df_work[i].Year + df_work[i].Week]
    IN  [df |-> df,
         ret |-> GroupRates(df_work, Ascending({key_of[i] : i \in 1..Len(df_work)}), key_of)]

\* batch_comparison(df)
batch_comparison(df) ==
    [df |-> df,
     ret |-> GroupRates(df, BatchIds, [i \in 1..Len(df) |-> df[i].Batch_ID])]

\* failure_trend_by_test(df): for each test type, in the order of first
\* appearance, one row per Week number that has a record of it.
failure_trend_by_test(df) ==
    LET df_work == [i \in 1..Len(df) |->
            SetColumn(df[i], "Week", IsoWeek(df[i].Timestamp.n))]
        names == Unique([i \in 1..Len(df_work) |-> df_work[i].Test_Name])
        weekly(test) ==
            LET is_test(row) == row.Test_Name = test
                test_df == SelectSeq(df_work, is_test)
                rows == GroupRates(test_df,
                                   Ascending({test_df[i].Week : i \in 1..Len(test_df)}),
                                   [i \in 1..Len(test_df) |-> test_df[i].Week])
            IN  [j \in 1..Len(rows) |-> SetColumn(rows[j], "Test_Name", test)]
        concat[k \in 0..Len(names)] ==
            IF k = 0 THEN <<>> ELSE concat[k - 1] \o weekly(names[k])
    IN  [df |-> df, ret |-> concat[Len(names)]]

\* trend_analysis.analyze(df)
trend_analyze(df) ==
    LET daily == daily_failure_rate(df)
        weekly == weekly_failure_rate(daily.df)
        batch == batch_comparison(weekly.df)
        by_test == failure_trend_by_test(batch.df)
    IN  [df |-> by_test.df,
         ret |-> [daily |-> daily.ret,
                  rolling_7d |-> rolling_failure_rate(daily.ret, 7),
                  rolling_14d |-> rolling_failure_rate(daily.ret, 14),
                  weekly |-> weekly.ret,
                  batch_comparison |-> batch.ret,
                  by_test |-> by_test.ret]]

\* ------------------------------------- error_extraction: the summaries
\* sort_values("Count", ascending=False) of the rows of a set: every order in
\* which Count does not increase (the sort is not stable).
SortByCountDesc(rows) ==
    {f \in [1..Cardinality(rows) -> rows] :
        /\ \A i, j \in 1..Cardinality(rows) : i # j => f[i] # f[j]
        /\ \A i \in 1..(Cardinality(rows) - 1) : f[i].Count >= f[i + 1].Count}

\* The sum of a column of numeric cells over the rows at the positions in S.
RECURSIVE SumOf(_, _, _)
SumOf(df, column, S) ==
    IF S = {} THEN 0
    ELSE LET i == CHOOSE x \in S : TRUE
         IN  df[i][column].n + SumOf(df, column, S \ {i})

\* error_summary(failures): the results it may return.  Averages: Temperature
\* and Execution_Time to 1 place (tenths), Voltage to 3 places (thousandths);
\* Temperature, which may be negative, is rounded 40 degrees up the scale.
error_summary(fs) ==
    LET key_of == [i \in 1..Len(fs) |->
            <<fs[i].Error_Code.s, fs[i].Test_Name, fs[i].Failure_Category.s>>]
        rows == {LET members == {i \in 1..Len(fs) : key_of[i] = key}
                     n == Cardinality(members)
                 IN  [Error_Code |-> key[1], Test_Name |-> key[2],
                      Failure_Category |-> key[3], Count |-> n,
                      Avg_Temperature |-> RoundDiv(SumOf(fs, "Temperature", members) + 400 * n, n) - 400,
                      Avg_Voltage |-> RoundDiv(100 * SumOf(fs, "Voltage", members), n),
                      Avg_Execution_Time |-> RoundDiv(SumOf(fs, "Execution_Time", members), n)] :
                 key \in {key_of[i] : i \in 1..Len(fs)}}
    IN  IF fs = <<>> THEN {<<>>} ELSE SortByCountDesc(rows)

\* category_summary(failures): the results it may return.
category_summary(fs) ==
    LET rows == {LET members == {i \in 1..Len(fs) : fs[i].Failure_Category.s = cat}
                     n == Cardinality(members)
                 IN  [Failure_Category |-> cat, Count |-> n,
                      Unique_Error_Codes |->
                          Cardinality({fs[i].Error_Code.s : i \in members}),
                      Avg_Temperature |-> RoundDiv(SumOf(fs, "Temperature", members) + 400 * n, n) - 400,
                      Avg_Voltage |-> RoundDiv(100 * SumOf(fs, "Voltage", members), n)] :
                 cat \in {fs[i].Failure_Category.s : i \in 1..Len(fs)}}
    IN  IF fs = <<>> THEN {<<>>} ELSE SortByCountDesc(rows)

\* error_extraction.analyze(df): the results it may return, each with the
\* caller's frame as the call leaves it.
error_analyze(df) ==
    LET fs == classify_failures(extract_failures(df))
    IN  {[df |-> df, failures |-> fs, err_summary |-> e, cat_summary |-> c] :
            e \in error_summary(fs), c \in category_summary(fs)}

\* ------------------------------------------- anomaly_detection: analyze
\* The records of the failure subset per calendar day, from the day of its
\* first record to the day of its last; count() skips a missing Error_Code.
DailyFailures(fs) ==
    LET days == {fs[i].Timestamp.n : i \in 1..Len(fs)}
        first == CHOOSE d \in days : \A e \in days : d <= e
        last == CHOOSE d \in days : \A e \in days : d >= e
    IN  IF fs = <<>> THEN <<>>
        ELSE [d \in 1..(last - first + 1) |->
                 Cardinality({i \in 1..Len(fs) :
                     fs[i].Timestamp.n = first + d - 1 /\ ~IsNa(fs[i].Error_Code)})]

\* anomaly_detection.analyze(df, failures): the three detectors in turn; the
\* first that raises ends the call.  The results it may end with.
anomaly_analyze(df, fs) ==
    LET batches == detect_anomalous_batches(df, BatchZThreshold)
        spikes == detect_error_spikes(DailyFailures(fs))
    IN  IF batches.status # "ok" THEN {[status |-> batches.status]}
        ELSE {IF devices.status # "ok" THEN [status |-> devices.status]
              ELSE [status |-> "ok",
                    batch_stats |-> batches.stats, anomalous_batches |-> batches.flagged,
                    spike_data |-> spikes.result, spikes |-> spikes.spikes,
                    device_stats |-> devices.stats, outlier_devices |-> devices.flagged] :
              devices \in detect_outlier_devices(df, DeviceZThreshold)}

\* ------------------------------------------------- main: the analysis steps
MaxCtxRows == 3

\* A record of the cleaned table (measurements in tenths).
CleanRecord(day, device, batch, test, temperature, voltage, duration, result, code) ==
    [Timestamp |-> Ts(day), Device_ID |-> device, Batch_ID |-> batch,
     Test_Name |-> test, Temperature |-> Num(temperature), Voltage |-> Num(voltage),
     Frequency |-> Num(10), Execution_Time |-> Num(duration),
     Result |-> Chars(result), Error_Code |-> Str(code)]

\* The records of the model: values on the lowest bin edge (20 degrees, 0.7 V,
\* 0 ms), on an interior edge (30 degrees, 0.8 V, 50 ms) and inside a bin; two
\* batches, three devices, two test types; three days in two ISO weeks, and a
\* day a year on (2025-12-31) in week 1 of ISO year 2026.
CtxRecords ==
    {CleanRecord(1, DeviceIds[1], BatchIds[1], "Timing_Check", 200, 7, 0, PASS, ""),
     CleanRecord(1, DeviceIds[1], BatchIds[1], "Timing_Check", 300, 8, 500, FAIL, "ERR_T01"),
     CleanRecord(1, DeviceIds[3], BatchIds[2], "Burn_In", 250, 12, 250, PASS, ""),
     CleanRecord(3, DeviceIds[3], BatchIds[2], "Burn_In", 300, 7, 0, FAIL, "ERR_X99"),
     CleanRecord(3, DeviceIds[2], BatchIds[1], "Burn_In", 250, 8, 500, PASS, ""),
     CleanRecord(8, DeviceIds[1], BatchIds[1], "Timing_Check", 200, 12, 250, FAIL, "ERR_B03"),
     CleanRecord(365, DeviceIds[1], BatchIds[1], "Timing_Check", 250, 8, 250, PASS, "")}

\* No step has raised.
Running == \A s \in DOMAIN ctx_results : ctx_results[s].status \in {"none", "ok"}

\* One more record of the cleaned table, which clean_data returns sorted by
\* Timestamp.
AddCtxRecord ==
    /\ ctx_steps = <<>>
    /\ Len(ctx_df) < MaxCtxRows
    /\ \E rec \in CtxRecords :
        /\ IF ctx_df = <<>> THEN TRUE
           ELSE ctx_df[Len(ctx_df)].Timestamp.n <= rec.Timestamp.n
        /\ ctx_df' = Append(ctx_df, rec)
    /\ UNCHANGED <<ctx_failures, ctx_results, ctx_steps>>
    /\ UNCHANGED coreVars
    /\ UNCHANGED zVars
    /\ UNCHANGED mainVars

\* _step_extract(ctx)
StepExtract ==
    /\ Running
    /\ ctx_results.extract.status = "none"
    /\ \E r \in error_analyze(ctx_df) :
        /\ ctx_df' = r.df
        /\ ctx_failures' = r.failures
        /\ ctx_results' = [ctx_results EXCEPT !.extract =
               [status |-> "ok", err_summary |-> r.err_summary,
                cat_summary |-> r.cat_summary]]
    /\ ctx_steps' = Append(ctx_steps, "extract")
    /\ UNCHANGED coreVars
    /\ UNCHANGED zVars
    /\ UNCHANGED mainVars

\* _step_patterns(ctx)
StepPatterns ==
    /\ Running
    /\ ctx_results.patterns.status = "none"
    /\ LET r == pattern_analyze(ctx_df)
       IN  /\ ctx_df' = r.df
           /\ ctx_results' = [ctx_results EXCEPT !.patterns =
                  [status |-> "ok", patterns |-> r.ret]]
    /\ ctx_steps' = Append(ctx_steps, "patterns")
    /\ UNCHANGED ctx_failures
    /\ UNCHANGED coreVars
    /\ UNCHANGED zVars
    /\ UNCHANGED mainVars

\* _step_anomalies(ctx): it reads ctx["failures"], which _step_extract sets.
\* The detectors build their tables by groupby and set_index, which return new
\* frames.
StepAnomalies ==
    /\ Running
    /\ ctx_results.extract.status = "ok"
    /\ ctx_results.anomalies.status = "none"
    /\ \E r \in anomaly_analyze(ctx_df, ctx_failures) :
        ctx_results' = [ctx_results EXCEPT !.anomalies = r]
    /\ ctx_steps' = Append(ctx_steps, "anomalies")
    /\ UNCHANGED <<ctx_df, ctx_failures>>
    /\ UNCHANGED coreVars
    /\ UNCHANGED zVars
    /\ UNCHANGED mainVars

\* _step_trends(ctx)
StepTrends ==
    /\ Running
    /\ ctx_results.trends.status = "none"
    /\ LET r == trend_analyze(ctx_df)
       IN  /\ ctx_df' = r.df
           /\ ctx_results' = [ctx_results EXCEPT !.trends =
                  [status |-> "ok", trends |-> r.ret]]
    /\ ctx_steps' = Append(ctx_steps, "trends")
    /\ UNCHANGED ctx_failures
    /\ UNCHANGED coreVars
    /\ UNCHANGED zVars
    /\ UNCHANGED mainVars

NextStages == AddCtxRecord \/ StepExtract \/ StepPatterns \/ StepAnomalies \/ StepTrends

SpecStages == Init /\ [][NextStages]_vars

\* -------------------------------------------------------- main: the loop
\* The ten columns generate_logs writes.
RequiredColumns ==
    {"Timestamp", "Device_ID", "Batch_ID", "Test_Name", "Voltage", "Temperature",
     "Frequency", "Result", "Error_Code", "Execution_Time"}

\* What a step does with the file it is given depends on the columns the file
\* has, on whether any record of it fails, and on whether its batches, or its
\* devices with 3 tests, are two or more of one failure rate.
DataFiles ==
    {[exists |-> TRUE, columns |-> cols, any_failure |-> f, equal_rates |-> e] :
        cols \in {RequiredColumns} \cup {RequiredColumns \ {c} : c \in RequiredColumns},
        f \in BOOLEAN, e \in BOOLEAN}

\* There is no data/test_logs.csv.
NoFile == [exists |-> FALSE, columns |-> {}, any_failure |-> FALSE, equal_rates |-> FALSE]

\* The step list with the Anomaly Detector before the Classifier.
StepsAnomaliesFirst(skip_gen) ==
    (IF skip_gen THEN <<>> ELSE <<"generate">>)
    \o <<"process", "anomalies", "extract", "patterns", "trends", "dashboard", "report">>

\* main: the `steps` list as built for the arguments.
Steps(skip_gen) ==
    (IF skip_gen THEN <<>> ELSE <<"generate">>)
    \o <<"process", "extract", "patterns", "anomalies", "trends", "dashboard", "report">>

\* The columns a step function looks up in the table; a column that is not
\* there is a KeyError.
ColumnsRead(step, file) ==
    CASE step = "process" ->
            {"Voltage", "Temperature", "Frequency", "Execution_Time",
             "Timestamp", "Result", "Error_Code"}
      [] step = "extract" ->
            {"Result", "Error_Code"}
            \cup (IF file.any_failure
                  THEN {"Test_Name", "Temperature", "Voltage", "Execution_Time"}
                  ELSE {})
      [] step = "patterns" ->
            {"Temperature", "Voltage", "Batch_ID", "Test_Name", "Execution_Time",
             "Result", "Frequency"}
      [] step = "anomalies" ->
            {"Batch_ID", "Result", "Timestamp", "Error_Code", "Device_ID"}
      [] step = "trends" -> {"Timestamp", "Result", "Batch_ID", "Test_Name"}
      [] OTHER -> {}

\* How a step function may end: the analysis steps raise on a missing column,
\* and the detectors on equal failure rates; the dashboard and the report,
\* which write files, may end either way.
Outcomes(step, file) ==
    IF step = "generate" THEN {"return"}
    ELSE IF ~(ColumnsRead(step, file) \subseteq file.columns) THEN {"raise"}
    ELSE IF step = "anomalies" /\ file.equal_rates THEN {"raise"}
    ELSE IF step \in {"dashboard", "report"} THEN {"return", "raise"}
    ELSE {"return"}

\* main up to the loop: the arguments parsed, the file as it is found, the
\* step list built; sys.exit(1) when --skip-gen is given and there is no file.
StartMain ==
    /\ main_pc = "idle"
    /\ \E skip_gen \in BOOLEAN : \E file \in DataFiles \cup {NoFile} :
        /\ data_file' = file
        /\ IF skip_gen /\ ~file.exists
           THEN main_pc' = "exit" /\ steps_left' = <<>>
           ELSE main_pc' = "loop" /\ steps_left' = Steps(skip_gen)
    /\ UNCHANGED <<running, events>>
    /\ UNCHANGED coreVars
    /\ UNCHANGED zVars
    /\ UNCHANGED stageVars

\* The loop calls the next step function.
BeginStep ==
    /\ main_pc = "loop"
    /\ running = "none"
    /\ steps_left # <<>>
    /\ running' = Head(steps_left)
    /\ steps_left' = Tail(steps_left)
    /\ events' = Append(events, <<Head(steps_left), "begin">>)
    /\ UNCHANGED <<main_pc, data_file>>
    /\ UNCHANGED coreVars
    /\ UNCHANGED zVars
    /\ UNCHANGED stageVars

\* The step function returns; _step_generate has written a file of all ten
\* columns.
ReturnStep ==
    /\ running # "none"
    /\ IF running = "generate"
       THEN \E file \in DataFiles :
                file.columns = RequiredColumns /\ data_file' = file
       ELSE "return" \in Outcomes(running, data_file) /\ UNCHANGED data_file
    /\ running' = "none"
    /\ events' = Append(events, <<running, "return">>)
    /\ UNCHANGED <<main_pc, steps_left>>
    /\ UNCHANGED coreVars
    /\ UNCHANGED zVars
    /\ UNCHANGED stageVars

\* The step function raises: the loop has a finally and no except, so the
\* exception leaves main.
RaiseStep ==
    /\ running # "none"
    /\ running # "generate"
    /\ "raise" \in Outcomes(running, data_file)
    /\ running' = "none"
    /\ main_pc' = "raised"
    /\ events' = Append(events, <<running, "raise">>)
    /\ UNCHANGED <<data_file, steps_left>>
    /\ UNCHANGED coreVars
    /\ UNCHANGED zVars
    /\ UNCHANGED stageVars

\* The loop is over: main prints the results.
PrintResults ==
    /\ main_pc = "loop"
    /\ running = "none"
    /\ steps_left = <<>>
    /\ main_pc' = "results"
    /\ UNCHANGED <<data_file, steps_left, running, events>>
    /\ UNCHANGED coreVars
    /\ UNCHANGED zVars
    /\ UNCHANGED stageVars

NextMain == StartMain \/ BeginStep \/ ReturnStep \/ RaiseStep \/ PrintResults

SpecMain == Init /\ [][NextMain]_vars

\* ------------------------------------------------------ cleaner properties
\* All four numeric cells of a row are present (after step 1).
AllNumericPresent(row) == \A i \in 1..Len(numeric_cols) : row[numeric_cols[i]].k = "num"

\* The columns of VALID_RANGES whose range a row lies outside.
ViolatedColumns(row) ==
    {j \in 1..Len(VALID_RANGES) :
        LET c == row[VALID_RANGES[j].col]
        IN  c.k = "num" /\ (c.n < VALID_RANGES[j].lo \/ c.n > VALID_RANGES[j].hi)}

ReasonSum ==
    report.rows_with_missing_values + report.rows_out_of_range
    + report.rows_bad_timestamp + report.rows_invalid_result

\* C1: the report balances: rows_removed + rows_remaining is the number of input
\* rows, and rows_remaining is the number of rows of the returned table.
C1_ReportBalances ==
    cpc = "cleaned" =>
        /\ report.rows_removed + report.rows_remaining = Len(raw)
        /\ report.rows_remaining = Len(cleaned)

C1_Witness ==
    /\ cpc = "cleaned"
    /\ Len(raw) = MaxRows
    /\ report.rows_removed >= 1
    /\ report.rows_remaining >= 1

WithinTenths(c, lo, hi) == c.k = "num" /\ lo <= c.n /\ c.n <= hi

\* The Result strings of the model that differ from PASS or FAIL by case or
\* surrounding whitespace only, with what each stands for.
NearResults ==
    {[given |-> <<" ", "f", "a", "i", "l", " ">>, means |-> FAIL],
     [given |-> <<"P", "a", "s", "s", "\t">>, means |-> PASS]}

\* C2: every returned record has its four measurements present and in range
\* (bounds inclusive), a parsed Timestamp and Result exactly PASS or FAIL; an
\* otherwise valid row whose Result is PASS/FAIL up to case and whitespace is
\* returned with the normalized Result.
C2_CleanRecordsValid ==
    cpc = "cleaned" =>
        /\ \A i \in 1..Len(cleaned) :
            /\ WithinTenths(cleaned[i].Voltage, 5, 20)
            /\ WithinTenths(cleaned[i].Temperature, -400, 1500)
            /\ WithinTenths(cleaned[i].Frequency, 5, 50)
            /\ WithinTenths(cleaned[i].Execution_Time, 0, 100000)
            /\ cleaned[i].Timestamp.k = "ts"
            /\ cleaned[i].Result.k = "str"
            /\ cleaned[i].Result.s \in {PASS, FAIL}
        /\ \A i \in 1..Len(raw) : \A v \in NearResults :
            ( /\ raw[i].Result.s = v.given
              /\ AllNumericPresent(raw[i])
              /\ ViolatedColumns(raw[i]) = {}
              /\ raw[i].Timestamp.s \in DOMAIN DateLiterals )
            => \E j \in 1..Len(cleaned) :
                /\ cleaned[j].Result.s = v.means
                /\ cleaned[j].Error_Code = raw[i].Error_Code
                /\ cleaned[j].Voltage = raw[i].Voltage

C2_Witness ==
    /\ cpc = "cleaned"
    /\ \E i \in 1..Len(raw) : raw[i].Frequency = Num(4)
    /\ \E i \in 1..Len(raw) : raw[i].Result.s = <<" ", "f", "a", "i", "l", " ">>
    /\ \E j \in 1..Len(cleaned) : cleaned[j].Result.s = FAIL /\ cleaned[j].Voltage = Num(12)

\* C3: Timestamp is non-decreasing along the returned table.
C3_SortedByTimestamp ==
    cpc = "cleaned" =>
        \A i, j \in 1..Len(cleaned) :
            i < j => cleaned[i].Timestamp.n <= cleaned[j].Timestamp.n

\* The input held a later row before an earlier one and both were kept.
C3_Witness ==
    /\ cpc = "cleaned"
    /\ Len(cleaned) = MaxRows
    /\ \E i, j \in 1..Len(raw) :
        i < j /\ raw[i].Timestamp.s = "2025-01-02" /\ raw[j].Timestamp.s = "2025-01-01"

\* C4 as stated: rows_out_of_range is the number of range violations, a row
\* with every measurement present adding one per column it violates.
C4_CountsViolations ==
    cpc = "cleaned" =>
        report.rows_out_of_range =
            Cardinality({p \in (1..Len(raw)) \X (1..Len(VALID_RANGES)) :
                AllNumericPresent(raw[p[1]]) /\ p[2] \in ViolatedColumns(raw[p[1]])})

\* C4 as amended: rows_out_of_range is the number of rows (with every
\* measurement present) that violate at least one range; a row that violates
\* two columns adds 1, and no such row is returned.
C4_CountsRowsOnce ==
    cpc = "cleaned" =>
        /\ report.rows_out_of_range =
                Cardinality({i \in 1..Len(raw) :
                    AllNumericPresent(raw[i]) /\ ViolatedColumns(raw[i]) # {}})
        /\ \A j \in 1..Len(cleaned) : ViolatedColumns(cleaned[j]) = {}

C4_Witness ==
    /\ cpc = "cleaned"
    /\ \E i \in 1..Len(raw) :
        AllNumericPresent(raw[i]) /\ Cardinality(ViolatedColumns(raw[i])) = 2
    /\ report.rows_out_of_range >= 1

\* C5 as stated: no returned record with Result PASS carries an Error_Code.
C5_PassHasNoErrorCode ==
    cpc = "cleaned" =>
        \A j \in 1..Len(cleaned) :
            cleaned[j].Result.s = PASS => cleaned[j].Error_Code = Str("")

\* C5 as amended: no returned record has a missing Error_Code, and a returned
\* record carries a non-empty Error_Code only if a raw row with that Error_Code
\* and that Result (up to case and whitespace) was given: a missing code
\* becomes empty, a present one is never cleared, whatever the Result.
C5_ErrorCodeKept ==
    cpc = "cleaned" =>
        \A j \in 1..Len(cleaned) :
            /\ cleaned[j].Error_Code.k = "str"
            /\ cleaned[j].Error_Code # Str("") =>
                \E i \in 1..Len(raw) :
                    /\ raw[i].Error_Code = cleaned[j].Error_Code
                    /\ \/ raw[i].Result.s = cleaned[j].Result.s
                       \/ \E v \in NearResults :
                            raw[i].Result.s = v.given /\ cleaned[j].Result.s = v.means

C5_Witness ==
    /\ cpc = "cleaned"
    /\ \E j \in 1..Len(cleaned) :
        cleaned[j].Result.s = PASS /\ cleaned[j].Error_Code = Str("ERR_X99")
    /\ \E j \in 1..Len(cleaned) :
        cleaned[j].Result.s = PASS /\ cleaned[j].Error_Code = Str("")
    /\ \E i \in 1..Len(raw) : IsNa(raw[i].Error_Code) /\ ViolatedColumns(raw[i]) = {}

\* C10: the four reason counts together are never fewer than rows_removed.
C10_EveryDropCounted == cpc = "cleaned" => ReasonSum >= report.rows_removed

C10_Witness ==
    /\ cpc = "cleaned"
    /\ report.rows_removed = MaxRows
    /\ report.rows_out_of_range >= 1
    /\ report.rows_with_missing_values >= 1
    /\ report.rows_bad_timestamp + report.rows_invalid_result >= 1

\* --------------------------------------------------- classifier properties
Categories ==
    {"Timing Failure", "Overcurrent", "Thermal Issue", "Data Corruption", "Unknown"}

\* C8: classify_failures returns the failure records it was given, each once
\* and in the same order, each with one Failure_Category of the closed set:
\* the mapped category for a key of the mapping (ERR_T01 Timing Failure,
\* ERR_V01 Overcurrent, ERR_B03 Data Corruption), Unknown for any other code
\* (ERR_X99, the empty string).
C8_EveryFailureClassified ==
    epc = "classified" =>
        /\ Len(classified) = Len(failures)
        /\ \A i \in 1..Len(failures) :
            LET code == failures[i].Error_Code.s
                cat == classified[i].Failure_Category
            IN  /\ classified[i].Error_Code = failures[i].Error_Code
                /\ classified[i].Result = failures[i].Result
                /\ cat.k = "str"
                /\ cat.s \in Categories
                /\ code = "ERR_T01" => cat.s = "Timing Failure"
                /\ code = "ERR_V01" => cat.s = "Overcurrent"
                /\ code = "ERR_B03" => cat.s = "Data Corruption"
                /\ code \in {"ERR_X99", ""} => cat.s = "Unknown"
                /\ code \in DOMAIN FAILURE_CATEGORIES => cat.s = FAILURE_CATEGORIES[code]
                /\ code \notin DOMAIN FAILURE_CATEGORIES => cat.s = "Unknown"

C8_Witness ==
    /\ epc = "classified"
    /\ Len(classified) = MaxRecords
    /\ classified[1].Failure_Category.s = "Unknown"
    /\ classified[2].Failure_Category.s = "Overcurrent"
    /\ classified[3].Failure_Category.s = "Unknown"
    /\ classified[1].Error_Code.s = ""
    /\ classified[3].Error_Code.s = "ERR_X99"

\* ----------------------------------------------------- detector properties
\* The number of records of `tests` with the given id in column col, and the
\* number of them that failed.
TestCount(col, id) == Cardinality({i \in 1..Len(tests) : tests[i][col] = id})

FailCount(col, id) ==
    Cardinality({i \in 1..Len(tests) : tests[i][col] = id /\ tests[i].Result.s = FAIL})

Ids(seq) == {seq[i] : i \in 1..Len(seq)}

\* The failure rates of the groups `ids` have standard deviation zero: there
\* are at least two groups and all have the same rate.
ZeroDeviation(col, ids) ==
    /\ Cardinality(ids) >= 2
    /\ \A a, b \in ids :
        FailCount(col, a) * TestCount(col, b) = FailCount(col, b) * TestCount(col, a)

BatchesPresent == {b \in Ids(BatchIds) : TestCount("Batch_ID", b) > 0}

EligibleDevices == {d \in Ids(DeviceIds) : TestCount("Device_ID", d) >= 3}

\* C6: when all batches (all eligible devices) have the same failure rate, the
\* detector returns normally and flags none.
C6_ZeroDeviationFlagsNone ==
    /\ (batch_out.status # "none" /\ ZeroDeviation("Batch_ID", BatchesPresent))
        => (batch_out.status = "ok" /\ batch_out.flagged = <<>>)
    /\ (device_out.status # "none" /\ ZeroDeviation("Device_ID", EligibleDevices))
        => (device_out.status = "ok" /\ device_out.flagged = <<>>)

\* The rows of `tests` of the devices with at least three tests.
EligibleTests ==
    LET eligible(row) == row.Device_ID \in EligibleDevices
    IN  SelectSeq(tests, eligible)

\* C9: a device with fewer than 3 tests is in neither the device statistics nor
\* the outliers, and the result is the one the detector gives for the table
\* without the records of such devices (they do not enter the mean or the
\* deviation); a device with 3 tests or more is in the statistics.
C9_LowSampleDevicesExcluded ==
    device_out.status # "none" =>
        /\ \A j \in 1..Len(device_out.stats) :
            /\ device_out.stats[j].Id \in EligibleDevices
            /\ device_out.stats[j].Total = TestCount("Device_ID", device_out.stats[j].Id)
        /\ \A j \in 1..Len(device_out.flagged) :
            device_out.flagged[j].Id \in EligibleDevices
        /\ device_out.status = "ok" =>
            \A d \in EligibleDevices :
                \E j \in 1..Len(device_out.stats) : device_out.stats[j].Id = d
        /\ device_out \in detect_outlier_devices(EligibleTests, DeviceZThreshold)

\* A device with two tests, both failed, is left out; one with exactly three
\* tests is scored against another eligible device.
C9_Witness ==
    /\ device_out.status = "ok"
    /\ \E d \in Ids(DeviceIds) :
        TestCount("Device_ID", d) = 2 /\ FailCount("Device_ID", d) = 2
    /\ \E j \in 1..Len(device_out.stats) :
        /\ device_out.stats[j].Total = 3
        /\ ~device_out.stats[j].Z_Score.nan
        /\ device_out.stats[j].Z_Score.sign = 1

\* The counts of the window_days days before day i of the daily series.
Preceding(daily, i) == SubSeq(daily, i - window_days, i - 1)

\* The week has average 5 and standard deviation about 2: the squared
\* deviations from 5 sum to (window_days - 1) * s^2 with s between 1.75 and 2.25.
QuietWeek(w) ==
    /\ SumSeq(w) = 5 * Len(w)
    /\ LET ss == SumSeq([j \in 1..Len(w) |-> (w[j] - 5) * (w[j] - 5)])
       IN  16 * ss >= 49 * (Len(w) - 1) /\ 16 * ss <= 81 * (Len(w) - 1)

\* C7: after a week of average 5 and standard deviation about 2, a day with 50
\* failures is flagged as a spike and a day with 10 failures is not.
C7_SpikeAfterQuietWeek ==
    spike_out.status = "ok" =>
        \A i \in (window_days + 1)..Len(spike_out.result) :
            LET daily == [j \in 1..Len(spike_out.result) |->
                             spike_out.result[j].Daily_Failures]
            IN  QuietWeek(Preceding(daily, i)) =>
                    /\ daily[i] = 50 => spike_out.result[i].Is_Spike
                    /\ daily[i] = 10 => ~spike_out.result[i].Is_Spike

C14_RawUntouched == [][cpc = "load" /\ cpc' = "cleaned" => raw' = raw]_vars

\* The rows of the caller's frame whose Voltage lies outside [0.5, 2.0].
VoltageOutOfRange ==
    {i \in 1..Len(raw) :
        raw[i].Voltage.k = "num" /\ (raw[i].Voltage.n < 5 \/ raw[i].Voltage.n > 20)}

\* Nothing is wrong with a row but, possibly, a Voltage outside its range.
OnlyVoltageDefect(row) ==
    /\ AllNumericPresent(row)
    /\ \A j \in ViolatedColumns(row) : VALID_RANGES[j].col = "Voltage"
    /\ row.Timestamp.s \in DOMAIN DateLiterals
    /\ \/ row.Result.s \in {PASS, FAIL}
       \/ \E v \in NearResults : row.Result.s = v.given

\* C18: when the only defect of the input is a Voltage out of range in k rows,
\* the report has rows_out_of_range = k, rows_removed = k, rows_remaining = n - k
\* and 0 for the three other reasons.
C18_VoltageOnlyReport ==
    (cpc = "cleaned" /\ \A i \in 1..Len(raw) : OnlyVoltageDefect(raw[i])) =>
        LET k == Cardinality(VoltageOutOfRange)
        IN  report =
                [rows_with_missing_values |-> 0, rows_out_of_range |-> k,
                 rows_bad_timestamp |-> 0, rows_invalid_result |-> 0,
                 rows_removed |-> k, rows_remaining |-> Len(raw) - k]

\* Two of three rows have a Voltage of 2.5 and nothing else wrong.
C18_Witness ==
    /\ cpc = "cleaned"
    /\ Len(raw) = MaxRows
    /\ \A i \in 1..Len(raw) : OnlyVoltageDefect(raw[i])
    /\ Cardinality(VoltageOutOfRange) = 2
    /\ Len(cleaned) = 1

\* ---------------------------------------------------- classifier properties
\* The positions of the FAIL records of the cleaned table.
FailPositions == {i \in 1..Len(table) : table[i].Result.s = FAIL}

\* C17: extract_failures returns exactly the records whose Result is FAIL, whole
\* and in their relative order: the k-th returned record is the k-th FAIL record
\* of the input.
C17_ExactlyTheFailures ==
    epc # "input" =>
        /\ Len(failures) = Cardinality(FailPositions)
        /\ \A k \in 1..Len(failures) :
            \E i \in FailPositions :
                /\ Cardinality({j \in FailPositions : j <= i}) = k
                /\ failures[k] = table[i]

\* A PASS record stands between two FAIL records of different Error_Code.
C17_Witness ==
    /\ epc # "input"
    /\ Len(table) = MaxRecords
    /\ table[1].Result.s = FAIL /\ table[2].Result.s = PASS /\ table[3].Result.s = FAIL
    /\ table[1].Error_Code # table[3].Error_Code
    /\ Len(failures) = 2

\* ------------------------------------------------------ z-score properties
\* The rates handed to zscore_anomalies over their common denominator.
Scaled ==
    LET D == ProdSeq([i \in 1..Len(rate_series) |-> rate_series[i].den])
    IN  [i \in 1..Len(rate_series) |-> rate_series[i].num * (D \div rate_series[i].den)]

\* For each rate, Len(rate_series) times its distance from the mean.
Deviations ==
    LET sc == Scaled
        total == SumSeq(sc)
    IN  [i \in 1..Len(rate_series) |-> Len(rate_series) * sc[i] - total]

\* (value - mean)^2 > (threshold/10)^2 * variance, for a value at distance d
\* from the mean and the variance being the squared distances sq over `divisor`.
ExceedsThreshold(d, sq, divisor) ==
    100 * d * d * divisor > z_out.threshold * z_out.threshold * sq

\* C19 as stated: the z-score divides by the population standard deviation
\* (divisor N), and a value is flagged exactly when |z| exceeds the threshold.
C19_PopulationDeviation ==
    z_out.status = "returned" =>
        LET dv == Deviations
            sq == SumSeq([i \in 1..Len(dv) |-> dv[i] * dv[i]])
        IN  sq > 0 =>
                \A i \in 1..Len(rate_series) :
                    z_out.ret.mask[i] <=> ExceedsThreshold(dv[i], sq, Len(rate_series))

\* C19 as amended: the z-score divides by the sample standard deviation
\* (divisor N - 1); a value is flagged exactly when |z| exceeds the threshold,
\* above or below the mean, and nothing is flagged when the deviation is zero or
\* undefined.
C19_SampleDeviation ==
    z_out.status = "returned" =>
        LET dv == Deviations
            sq == SumSeq([i \in 1..Len(dv) |-> dv[i] * dv[i]])
        IN  /\ Len(z_out.ret.mask) = Len(rate_series)
            /\ \A i \in 1..Len(rate_series) :
                z_out.ret.mask[i] <=>
                    (Len(rate_series) >= 2 /\ sq > 0
                     /\ ExceedsThreshold(dv[i], sq, Len(rate_series) - 1))

\* One of nine groups is flagged for a rate above the mean and, in another
\* run, one for a rate below it.
C19_Witness ==
    /\ z_out.status = "returned"
    /\ z_out.threshold = BatchZThreshold
    /\ Len(rate_series) = MaxSeries
    /\ \E i \in 1..Len(rate_series) : z_out.ret.mask[i] /\ rate_series[i].num = 0

\* ------------------------------------------------- analysis step properties
\* The batches with a record in ctx["df"].
CtxBatches == {ctx_df[i].Batch_ID : i \in 1..Len(ctx_df)}

\* The devices with 3 or more records in ctx["df"].
CtxEligibleDevices ==
    {d \in {ctx_df[i].Device_ID : i \in 1..Len(ctx_df)} :
        Cardinality({i \in 1..Len(ctx_df) : ctx_df[i].Device_ID = d}) >= 3}

\* C13: on an empty table with an empty failure subset the three detectors
\* complete without raising and flag nothing; likewise on a table of a single
\* batch, and with a single eligible device.
C13_DegenerateInputFlagsNothing ==
    ( /\ ctx_results.anomalies.status # "none"
      /\ Cardinality(CtxBatches) <= 1
      /\ Cardinality(CtxEligibleDevices) <= 1 )
    => /\ ctx_results.anomalies.status = "ok"
       /\ ctx_results.anomalies.anomalous_batches = <<>>
       /\ ctx_results.anomalies.outlier_devices = <<>>
       /\ Len(ctx_results.anomalies.batch_stats) = Cardinality(CtxBatches)
       /\ Len(ctx_results.anomalies.device_stats) = Cardinality(CtxEligibleDevices)
       /\ ctx_failures = <<>> =>
            /\ ctx_results.anomalies.spike_data = <<>>
            /\ ctx_results.anomalies.spikes = <<>>

\* One batch and one device with three tests, one of them failed.
C13_Witness ==
    /\ ctx_results.anomalies.status = "ok"
    /\ Len(ctx_df) = 3
    /\ Cardinality(CtxBatches) = 1
    /\ Cardinality(CtxEligibleDevices) = 1
    /\ Len(ctx_failures) = 1

\* C15: an analysis step leaves ctx["df"] as it was, and ctx["failures"] once
\* _step_extract has set it; what the pattern and trend steps return is what
\* they return for the table as cleaned, whichever steps ran before them.
C15_StepsLeaveTablesAlone ==
    [][ctx_steps' # ctx_steps =>
        /\ ctx_df' = ctx_df
        /\ ctx_results.extract.status = "ok" => ctx_failures' = ctx_failures
        /\ ctx_results'.patterns.status = "ok" =>
            ctx_results'.patterns.patterns = pattern_analyze(ctx_df).ret
        /\ ctx_results'.trends.status = "ok" =>
            ctx_results'.trends.trends = trend_analyze(ctx_df).ret]_vars

\* The four steps have run, the trend step first and the Classifier third, on
\* a full table with a failure in it.
C15_Witness ==
    /\ ctx_steps = <<"trends", "patterns", "extract", "anomalies">>
    /\ Len(ctx_df) = MaxCtxRows
    /\ ctx_failures # <<>>
    /\ ctx_results.anomalies.status = "ok"

\* The Total a binned table gives for the bin with lower edge bins[j].
BinTotal(tbl, j) ==
    IF \E r \in 1..Len(tbl) : tbl[r].Group = j
    THEN (CHOOSE row \in {tbl[r] : r \in 1..Len(tbl)} : row.Group = j).Total
    ELSE 0

\* The records of ctx["df"] with bins[j] <= value < bins[j+1].
InHalfOpenBin(column, bins, j) ==
    {i \in 1..Len(ctx_df) :
        bins[j] <= ctx_df[i][column].n /\ ctx_df[i][column].n < bins[j + 1]}

\* C20 as stated: the Temperature, Voltage and Execution_Time bins are
\* half-open with the upper bound exclusive: a value on an interior edge counts
\* in the bin that starts there, a value on the lowest edge in the first bin.
C20_BinsUpperExclusive ==
    ctx_results.patterns.status = "ok" =>
        LET p == ctx_results.patterns.patterns
        IN  /\ \A j \in 1..(Len(temperature_bins) - 1) :
                BinTotal(p.failure_vs_temperature, j)
                    = Cardinality(InHalfOpenBin("Temperature", temperature_bins, j))
            /\ \A j \in 1..(Len(voltage_bins) - 1) :
                BinTotal(p.failure_vs_voltage, j)
                    = Cardinality(InHalfOpenBin("Voltage", voltage_bins, j))
            /\ \A j \in 1..(Len(duration_bins) - 1) :
                BinTotal(p.failure_vs_duration, j)
                    = Cardinality(InHalfOpenBin("Execution_Time", duration_bins, j))

\* -------------------------------------------------------- main properties
\* The position of an event in `events`, 0 if it has not happened.
EventAt(step, kind) ==
    IF \E i \in 1..Len(events) : events[i] = <<step, kind>>
    THEN CHOOSE i \in 1..Len(events) : events[i] = <<step, kind>>
    ELSE 0

\* Step `first` has returned before step `second` was begun, if it was.
ReturnedBefore(first, second) ==
    EventAt(second, "begin") > 0 =>
        /\ EventAt(first, "return") > 0
        /\ EventAt(first, "return") < EventAt(second, "begin")

\* C12 as stated: a table that lacks one of the ten required columns makes the
\* Cleaner fail, and no later step runs on it.
C12_MissingColumnStopsCleaner ==
    ( /\ data_file.exists
      /\ data_file.columns # RequiredColumns
      /\ \E i \in 1..Len(events) : events[i][1] = "process" /\ events[i][2] # "begin" )
    => /\ main_pc = "raised"
       /\ events[Len(events)] = <<"process", "raise">>

\* C16: steps run one at a time in forward order: a step is begun only when
\* the one before it has returned; cleaning returns before any analysis step is
\* begun, the Classifier before the Anomaly Detector, the five core steps
\* before the dashboard and the report; after a step raises nothing is begun.
C16_ForwardOrder ==
    /\ \A i \in 1..Len(events) :
        /\ events[i][2] = "begin" => (i = 1 \/ events[i - 1][2] = "return")
        /\ events[i][2] # "begin" => (i > 1 /\ events[i - 1] = <<events[i][1], "begin">>)
        /\ events[i][2] = "raise" => (i = Len(events) /\ main_pc = "raised")
    /\ running # "none" <=> (events # <<>> /\ events[Len(events)][2] = "begin")
    /\ \A s \in {"extract", "patterns", "anomalies", "trends"} : ReturnedBefore("process", s)
    /\ ReturnedBefore("extract", "anomalies")
    /\ \A s \in {"dashboard", "report"} :
        \A c \in {"process", "extract", "patterns", "anomalies", "trends"} :
            ReturnedBefore(c, s)
    /\ main_pc = "results" => EventAt("report", "return") = Len(events)

\* A run that generated its data and went through all eight steps.
C16_Witness ==
    /\ main_pc = "results"
    /\ Len(events) = 16
    /\ events[1] = <<"generate", "begin">>

\* ------------------------------------------------ cleaner: reasons of a drop
\* The first step of clean_data that a row of the caller's frame fails, in the
\* order of the steps; "kept" if it fails none.
FirstReason(row) ==
    IF ~AllNumericPresent(row) THEN "rows_with_missing_values"
    ELSE IF ViolatedColumns(row) # {} THEN "rows_out_of_range"
    ELSE IF ~(row.Timestamp.k = "str" /\ row.Timestamp.s \in DOMAIN DateLiterals)
         THEN "rows_bad_timestamp"
    ELSE IF ~(row.Result.k = "str"
              /\ (row.Result.s \in {PASS, FAIL}
                  \/ \E v \in NearResults : row.Result.s = v.given))
         THEN "rows_invalid_result"
    ELSE "kept"

\* C22: each dropped row is counted under exactly one reason, that of the first
\* step it fails (missing value, out of range, bad timestamp, invalid Result);
\* so the four counts add up to rows_removed.
C22_OneReasonPerDrop ==
    cpc = "cleaned" =>
        /\ \A reason \in {"rows_with_missing_values", "rows_out_of_range",
                           "rows_bad_timestamp", "rows_invalid_result"} :
            report[reason] =
                Cardinality({i \in 1..Len(raw) : FirstReason(raw[i]) = reason})
        /\ ReasonSum = report.rows_removed

\* A row with a Voltage of 2.5 and an unparseable Timestamp was counted as out
\* of range only, beside a row with two columns out of range and a kept row.
C22_Witness ==
    /\ cpc = "cleaned"
    /\ Len(raw) = MaxRows
    /\ \E i \in 1..Len(raw) :
        raw[i].Voltage = Num(25) /\ raw[i].Timestamp.s = "not-a-date"
    /\ \E i \in 1..Len(raw) : Cardinality(ViolatedColumns(raw[i])) = 2
    /\ report.rows_out_of_range = 2
    /\ report.rows_bad_timestamp = 0
    /\ report.rows_remaining = 1

\* ------------------------------------------------- spikes: what is flagged
\* The window of day i of the daily table holds the day's own count, and the
\* count exceeds the window's mean by at most (n-1)/sqrt(n) sample standard
\* deviations: with a = n*x - sum(w) and q = sum((n*w[j] - sum(w))^2),
\* n * a^2 <= (n-1) * q.
WithinOwnWindow(daily, i) ==
    LET lo == IF i > window_days THEN i - window_days + 1 ELSE 1
        n == i - lo + 1
        S == SumSeq(SubSeq(daily, lo, i))
        a == n * daily[i] - S
        q == SumSeq([j \in 1..n |-> (n * daily[lo + j - 1] - S)
                                    * (n * daily[lo + j - 1] - S)])
    IN  /\ n <= window_days
        /\ n * a * a <= (n - 1) * q

BatchTablesAgree(by_batch, stats, comparison) ==
    /\ Len(by_batch) = Len(stats)
    /\ Len(comparison) = Len(stats)
    /\ \A j \in 1..Len(stats) :
        /\ by_batch[j].Group = stats[j].Id
        /\ comparison[j].Group = stats[j].Id
        /\ by_batch[j].Total = stats[j].Total
        /\ comparison[j].Total = stats[j].Total
        /\ by_batch[j].Failures = stats[j].Failures
        /\ comparison[j].Failures = stats[j].Failures
        /\ stats[j].Failures <= stats[j].Total
    /\ \A j \in 1..Len(stats), k \in 1..Len(stats) :
        j < k => \E a \in 1..Len(BatchIds), b \in 1..Len(BatchIds) :
                    a < b /\ BatchIds[a] = stats[j].Id /\ BatchIds[b] = stats[k].Id
    /\ SumSeq([j \in 1..Len(stats) |-> stats[j].Total]) = Len(ctx_df)

\* C24 as stated: for every cleaned table, pattern_detection.failure_vs_batch,
\* the batch_stats of detect_anomalous_batches and trend_analysis.batch_comparison
\* all exist and hold the same batches, in ascending order, with the same Total
\* and Failures.
C24_BatchTablesAgree ==
    ( /\ ctx_results.patterns.status = "ok"
      /\ ctx_results.trends.status = "ok"
      /\ ctx_results.anomalies.status # "none" )
    => LET batches == detect_anomalous_batches(ctx_df, BatchZThreshold)
       IN  /\ batches.status = "ok"
           /\ ctx_results.anomalies.status = "ok" =>
                  ctx_results.anomalies.batch_stats = batches.stats
           /\ BatchTablesAgree(ctx_results.patterns.patterns.failure_vs_batch,
                               batches.stats,
                               ctx_results.trends.trends.batch_comparison)

\* ------------------------------------------------ weekly rates per test
\* The records of one test in ctx["df"].
CtxRecordsOf(test) ==
    LET is_test(row) == row.Test_Name = test
    IN  SelectSeq(ctx_df, is_test)

\* The rows of failure_trend_by_test tagged with one test.
TaggedRows(by_test, test) ==
    LET tagged(row) == row.Test_Name = test
    IN  SelectSeq(by_test, tagged)

\* C21 as stated: for each Test_Name the rows of failure_trend_by_test tagged
\* with it are the rows of weekly_failure_rate (one per ISO year and ISO week)
\* of the records of that test alone: as many rows, with the same week, Total,
\* Failures and rate; so records of one test in one week number of two ISO
\* years are in two rows.
C21_PerTestWeeklyMatches ==
    ctx_results.trends.status = "ok" =>
        LET by_test == ctx_results.trends.trends.by_test
        IN  /\ \A j \in 1..Len(by_test) :
                \E i \in 1..Len(ctx_df) : ctx_df[i].Test_Name = by_test[j].Test_Name
            /\ \A i \in 1..Len(ctx_df) :
                LET rows == TaggedRows(by_test, ctx_df[i].Test_Name)
                    alone == weekly_failure_rate(CtxRecordsOf(ctx_df[i].Test_Name)).ret
                IN  /\ Len(rows) = Len(alone)
                    /\ \A j \in 1..Len(rows) :
                        j <= Len(alone) =>
                            /\ rows[j].Group = alone[j].Group % 100
                            /\ rows[j].Total = alone[j].Total
                            /\ rows[j].Failures = alone[j].Failures
                            /\ rows[j].Failure_Rate_Pct = alone[j].Failure_Rate_Pct


====
